---- MODULE Spec2Model ----
(***************************************************************************)
(* A model of api/index.py: the conversation-context store (remote Edge    *)
(* Config entries plus the in-process fallback dictionary), the /clear and *)
(* text handlers that use it, the audio/video handler with its cleanup     *)
(* block, the 4096-step slicing of the PDF summary, the configuration read, *)
(* and the webhook with the dispatcher's handler table and error handler.  *)
(***************************************************************************)
EXTENDS Integers, Sequences, FiniteSets, TLC

\* ------------------------------------------------------------------ bounds

\* the outgoing texts tried are those whose length is within Slack of a multiple
\* of the chunk size, up to MaxChunks chunks
MaxChunks == 3
Slack == 1
\* handler invocations started in one behaviour
MaxUpdates == 2
\* successful exchanges a chat may already have behind it when the process starts
MaxSeedExchanges == 10
\* requests the webhook receives in one behaviour
MaxRequests == 1

\* ------------------------------------------------------- program constants

\* handle_text: "if len(chat_history) > 20: chat_history = chat_history[-20:]"
HistoryLimit == 20

\* handle_document: range(0, len(response_text), 4096) and response_text[i:i+4096]
ChunkSize == 4096

\* ---------------------------------------------------------------- domains

Chats == {1, 2}
Procs == {1, 2}
\* texts of inbound messages
Texts == {"a", "b"}
\* the text of the messages exchanged before the process started
SeedText == "s"
\* the text of a model reply (response.text)
ReplyText == "m"

\* Python's None, and a present value v, both as sequences so they compare
None == <<>>
Some(v) == <<v>>

UserTurn(t) == [role |-> "user", text |-> t]
ModelTurn(t) == [role |-> "model", text |-> t]

VARIABLES
    edge_contexts,            \* Edge Config: chat -> None | Some(history), the item context_<chat_id>
    temporary_chat_contexts,  \* the fallback dict: chat -> None | Some(history)
    pc,                       \* per invocation: the step it is to take next
    handler,                  \* per invocation: "none" | "text" | "clear"
    chat_id,                  \* per invocation: update.message.chat.id
    text,                     \* per invocation: update.message.text
    context,                  \* per invocation: what get_config_item returned (None | Some(history))
    chat_history,             \* per invocation: [alias, val]: alias = it IS the fallback dict's list
    initial_history,          \* per invocation: chat_history[:-1]
    serializable_history,     \* per invocation: the session history after send_message
    flag,                     \* per invocation: the boolean the last store call returned
    reply,                    \* per invocation: the messages passed to send_safe_message, in order
    updates,                  \* invocations started so far
    last_store_op,            \* ghost, per chat: the last save/clear that finished in this process
    prior,                    \* ghost, per invocation: the history get_chat_context returned
    write_order,              \* ghost: the invocations whose remote write succeeded, in order
    had_history,              \* ghost, per invocation: a history was stored for its chat when it began
    calls,                    \* ghost: the last two calls made on the context store directly
    m_pc,                     \* handle_media, per invocation: the step it is to take next
    media,                    \* handle_media, per invocation: [kind, file_id] of the update
    file_path,                \* handle_media, per invocation: None | Some(path)
    gemini_file,              \* handle_media, per invocation: None | Some(handle)
    m_reply,                  \* handle_media, per invocation: the messages passed to send_safe_message
    tmp_files,                \* the local /tmp: path -> None | Some(invocation that wrote it)
    gemini_files,             \* the files held by the AI backend
    uploads,                  \* uploads made so far (the next handle)
    cleanup,                  \* ghost, per invocation: the deletions attempted in the finally block
    m_updates,                \* handle_media invocations started so far
    d_pc,                     \* handle_document: the step it is to take next
    document,                 \* handle_document: [mime_type, file_name] of update.message.document
    response_text,            \* handle_document: the header line and the AI response, a sequence of characters
    chunk_i,                  \* handle_document: the loop variable i of the chunk loop
    d_reply,                  \* handle_document: the messages passed to send_safe_message, in order
    w_pc,                     \* webhook: "idle" | the handler at work | "hook" | "returning"
    w_update,                 \* webhook: the request being served
    w_exc,                    \* webhook: the exception its try block ended with, "none" if none
    w_response,               \* webhook: None | Some(what the last request was answered with)
    w_sent,                   \* webhook: the messages start, handle_photo and error_handler sent for it
    w_hook,                   \* ghost: error_handler was called for the request
    w_report,                 \* ghost: None | Some(lengths of the error report built for the request)
    w_requests,               \* requests received so far
    w_ai,                     \* webhook: len(response.text) of the AI response the request gets, if it asks
    developer_chat_id,        \* the environment's DEVELOPER_CHAT_ID: None | Some(string)
    edge_config,              \* Edge Config: the items system_instruction and safety_settings
    credentials,              \* the environment's EDGE_CONFIG and VERCEL_EDGE_CONFIG_TOKEN: set or not
    configs,                  \* None | Some(what the last get_all_configs call returned)
    cfg_call                  \* ghost: None | Some(the last get_all_configs call: outcome, items, exception)

storeVars == <<edge_contexts, temporary_chat_contexts>>
invVars == <<pc, handler, chat_id, text, context, chat_history, initial_history,
             serializable_history, flag, reply, updates>>
ghostVars == <<last_store_op, prior, write_order, had_history>>
textVars == <<storeVars, invVars, ghostVars>>
\* what the text and /clear handlers leave alone
mediaVars == <<m_pc, media, file_path, gemini_file, m_reply, tmp_files, gemini_files,
              uploads, cleanup, m_updates>>
docVars == <<d_pc, document, response_text, chunk_i, d_reply>>
webVars == <<w_pc, w_update, w_exc, w_response, w_sent, w_hook, w_report, w_requests, w_ai,
            developer_chat_id>>
cfgVars == <<edge_config, credentials, configs, cfg_call>>
\* what the handlers leave alone, but for the webhook's variables
textFrame == <<calls, mediaVars, docVars, cfgVars>>
mediaFrame == <<textVars, calls, docVars, cfgVars>>
docFrame == <<textVars, calls, mediaVars, cfgVars>>
nonTextVars == <<textFrame, webVars>>
nonMediaVars == <<mediaFrame, webVars>>
nonDocVars == <<docFrame, webVars>>
vars == <<textVars, calls, mediaVars, docVars, webVars, cfgVars>>

\* ------------------------------------------------------------ list slices

\* Python's lst[-n:]
LastN(lst, n) == IF Len(lst) <= n THEN lst ELSE SubSeq(lst, Len(lst) - n + 1, Len(lst))
\* Python's lst[:-1]
AllButLast(lst) == IF Len(lst) = 0 THEN <<>> ELSE SubSeq(lst, 1, Len(lst) - 1)

\* --------------------------------------------------------- the context store

\* get_config_item: the stored value when the read succeeds and the key exists,
\* None on a 404, on missing credentials and on any error
get_config_item(store, chat, read_ok) == IF read_ok THEN store[chat] ELSE None

\* a lookup that prefers the fallback dict to the remote value
get_chat_context_fallback_first(ctx, fallback, chat) ==
    IF fallback[chat] # None THEN [alias |-> TRUE, val |-> fallback[chat][1]]
    ELSE IF ctx # None THEN [alias |-> FALSE, val |-> ctx[1]]
    ELSE [alias |-> FALSE, val |-> <<>>]

\* get_chat_context after get_config_item returned ctx: the remote value, else the
\* fallback dict's own list (alias), else a new empty list
get_chat_context(ctx, fallback, chat) ==
    IF ctx # None THEN [alias |-> FALSE, val |-> ctx[1]]
    ELSE IF fallback[chat] # None THEN [alias |-> TRUE, val |-> fallback[chat][1]]
    ELSE [alias |-> FALSE, val |-> <<>>]

\* a save that creates the item and never overwrites one that exists
save_config_item_no_overwrite(store, chat, value, write_ok) ==
    IF write_ok /\ store[chat] = None THEN [store EXCEPT ![chat] = Some(value)] ELSE store

\* a save that adds the new exchange to the stored item instead of replacing it
save_config_item_merge(store, chat, value, write_ok) ==
    IF ~write_ok THEN store
    ELSE IF store[chat] = None THEN [store EXCEPT ![chat] = Some(value)]
    ELSE [store EXCEPT ![chat] = Some(store[chat][1] \o LastN(value, 2))]

\* save_config_item's effect on the remote store: the item is written iff the
\* PATCH succeeds
save_config_item(store, chat, value, write_ok) ==
    IF write_ok THEN [store EXCEPT ![chat] = Some(value)] ELSE store

\* a delete that reports success and leaves the item where it is
delete_config_item_keep(store, chat, delete_ok) == store

\* delete_config_item's effect on the remote store
delete_config_item(store, chat, delete_ok) ==
    IF delete_ok THEN [store EXCEPT ![chat] = None] ELSE store

\* a save that leaves the fallback entry in place when the remote write succeeds
save_chat_context_no_evict(fallback, chat, value, saved) ==
    IF saved THEN fallback ELSE [fallback EXCEPT ![chat] = Some(value)]

\* a save that keeps nothing in the fallback dict when the remote write failed
save_chat_context_drop(fallback, chat, value, saved) == [fallback EXCEPT ![chat] = None]

\* save_chat_context's effect on the fallback dict, given save_config_item's result
save_chat_context(fallback, chat, value, saved) ==
    IF saved THEN [fallback EXCEPT ![chat] = None]
    ELSE [fallback EXCEPT ![chat] = Some(value)]

\* a clear that leaves the fallback entry in place when the remote delete failed
clear_fallback_on_success(fallback, chat, deleted) ==
    IF deleted THEN [fallback EXCEPT ![chat] = None] ELSE fallback

\* a clear that empties the fallback dict
clear_fallback_all(fallback, chat, deleted) == [c \in DOMAIN fallback |-> None]

\* clear_context lines 779-781: the fallback entry goes, whatever
\* delete_config_item returned (deleted)
clear_fallback(fallback, chat, deleted) == [fallback EXCEPT ![chat] = None]

\* a choice of message that always confirms
clear_message_always_success(deleted) == "cleared"

\* clear_context lines 783-786: the message, by what delete_config_item returned
clear_message(deleted) == IF deleted THEN "cleared" ELSE "cleared_caveat"

\* ------------------------------------------------------------ handle_text

\* chat_history.append(user turn), then the cut to the last 20
append_user(hist, t) == Append(hist, UserTurn(t))
truncate(hist) == IF Len(hist) > HistoryLimit THEN LastN(hist, HistoryLimit) ELSE hist
\* chat_session.history after send_message(text) on start_chat(history=initial)
session_history(initial, t, r) == initial \o <<UserTurn(t), ModelTurn(r)>>
\* one whole successful exchange on a stored history
exchange(hist, t) == session_history(AllButLast(truncate(append_user(hist, t))), t, ReplyText)

RECURSIVE seed_history(_)
\* the history n successful exchanges leave behind
seed_history(n) == IF n = 0 THEN <<>> ELSE exchange(seed_history(n - 1), SeedText)

\* what the remote store may hold for a chat when the process starts
SeedEntries == {None, Some(seed_history(MaxSeedExchanges))}

\* ------------------------------------------------------------ handle_media

\* what an update handed to handle_media carries: a voice note, an audio file with
\* or without a file name, a video; "other" is a media_type that is neither
\* 'audio' nor 'video' (the registered callers pass only those two)
MediaKinds == {"voice", "audio", "audio_noname", "video", "other"}
FileIds == {1, 2}
Extensions == {"ogg", "mp3", "mp4"}
Paths == FileIds \X Extensions

\* lines 885 and 890: the extension of the temp file
file_extension(kind) ==
    IF kind = "voice" THEN "ogg" ELSE IF kind = "video" THEN "mp4" ELSE "mp3"

\* line 900: f"/tmp/{file_id}.{file_extension}"
temp_path(m) == <<m.file_id, file_extension(m.kind)>>

MediaInit ==
    /\ m_pc = [p \in Procs |-> "idle"]
    /\ media = [p \in Procs |-> [kind |-> "voice", file_id |-> 1]]
    /\ file_path = [p \in Procs |-> None]
    /\ gemini_file = [p \in Procs |-> None]
    /\ m_reply = [p \in Procs |-> <<>>]
    /\ tmp_files = [f \in Paths |-> None]
    /\ gemini_files = {}
    /\ uploads = 0
    /\ cleanup = [p \in Procs |-> <<>>]
    /\ m_updates = 0

MediaFinished(p) == m_pc[p] \in {"done", "raised"}

\* a handler that looks the file up without a notice
after_branch_no_notice(kind) ==
    IF kind = "other" THEN "finally_local"
    ELSE IF kind = "audio_noname" THEN "except"
    ELSE "get_file"

\* lines 883-897: where handle_media goes after the branch on media_type: out
\* (line 895), to the except branch (line 885 raised), or on to the notice
after_branch(kind) ==
    IF kind = "other" THEN "finally_local"
    ELSE IF kind = "audio_noname" THEN "except"
    ELSE "notify"

\* lines 875-895: the locals, then the branch on media_type; an audio message
\* without a file name raises at line 885, another media_type returns
MediaStart(p, kind, fid) ==
    /\ m_pc[p] = "idle" \/ MediaFinished(p)
    /\ m_updates < MaxUpdates
    /\ m_updates' = m_updates + 1
    /\ media' = [media EXCEPT ![p] = [kind |-> kind, file_id |-> fid]]
    /\ file_path' = [file_path EXCEPT ![p] = None]
    /\ gemini_file' = [gemini_file EXCEPT ![p] = None]
    /\ m_reply' = [m_reply EXCEPT ![p] = <<>>]
    /\ cleanup' = [cleanup EXCEPT ![p] = <<>>]
    /\ m_pc' = [m_pc EXCEPT ![p] = after_branch(kind)]
    /\ UNCHANGED <<tmp_files, gemini_files, uploads>>
    /\ UNCHANGED mediaFrame

\* line 897: the processing notice (send_safe_message never raises)
MediaNotify(p) ==
    /\ m_pc[p] = "notify"
    /\ m_reply' = [m_reply EXCEPT ![p] = Append(@, "processing")]
    /\ m_pc' = [m_pc EXCEPT ![p] = "get_file"]
    /\ UNCHANGED <<media, file_path, gemini_file, tmp_files, gemini_files, uploads, cleanup, m_updates>>
    /\ UNCHANGED nonMediaVars

\* lines 899-900: get_file, then file_path is set
MediaGetFile(p) ==
    /\ m_pc[p] = "get_file"
    /\ \E ok \in BOOLEAN :
          IF ok
          THEN /\ file_path' = [file_path EXCEPT ![p] = Some(temp_path(media[p]))]
               /\ m_pc' = [m_pc EXCEPT ![p] = "download"]
          ELSE /\ m_pc' = [m_pc EXCEPT ![p] = "except"]
               /\ UNCHANGED file_path
    /\ UNCHANGED <<media, gemini_file, m_reply, tmp_files, gemini_files, uploads, cleanup, m_updates>>
    /\ UNCHANGED nonMediaVars

\* line 902: download_to_drive writes the file, or fails with or without having
\* created it
MediaDownload(p) ==
    /\ m_pc[p] = "download"
    /\ \E outcome \in {"ok", "failed", "failed_partial"} :
          /\ tmp_files' = IF outcome = "failed" THEN tmp_files
                          ELSE [tmp_files EXCEPT ![file_path[p][1]] = Some(p)]
          /\ m_pc' = [m_pc EXCEPT ![p] = IF outcome = "ok" THEN "upload" ELSE "except"]
    /\ UNCHANGED <<media, file_path, gemini_file, m_reply, gemini_files, uploads, cleanup, m_updates>>
    /\ UNCHANGED nonMediaVars

\* line 906: upload_file reads the local file and yields a handle, or raises
MediaUpload(p) ==
    /\ m_pc[p] = "upload"
    /\ \E ok \in BOOLEAN :
          IF ok /\ tmp_files[file_path[p][1]] # None
          THEN /\ uploads' = uploads + 1
               /\ gemini_file' = [gemini_file EXCEPT ![p] = Some(uploads + 1)]
               /\ gemini_files' = gemini_files \cup {uploads + 1}
               /\ m_pc' = [m_pc EXCEPT ![p] = "generate"]
          ELSE /\ m_pc' = [m_pc EXCEPT ![p] = "except"]
               /\ UNCHANGED <<uploads, gemini_file, gemini_files>>
    /\ UNCHANGED <<media, file_path, m_reply, tmp_files, cleanup, m_updates>>
    /\ UNCHANGED nonMediaVars

\* lines 909-917: the configuration, the model, generate_content
MediaGenerate(p) ==
    /\ m_pc[p] = "generate"
    /\ \E ok \in BOOLEAN :
          m_pc' = [m_pc EXCEPT ![p] = IF ok THEN "send_result" ELSE "except"]
    /\ UNCHANGED <<media, file_path, gemini_file, m_reply, tmp_files, gemini_files, uploads,
                   cleanup, m_updates>>
    /\ UNCHANGED nonMediaVars

\* line 919: response.text (raises when the response holds no text), then the send
MediaSendResult(p) ==
    /\ m_pc[p] = "send_result"
    /\ \E has_text \in BOOLEAN :
          IF has_text
          THEN /\ m_reply' = [m_reply EXCEPT ![p] = Append(@, "analysis")]
               /\ m_pc' = [m_pc EXCEPT ![p] = "finally_local"]
          ELSE /\ m_pc' = [m_pc EXCEPT ![p] = "except"]
               /\ UNCHANGED m_reply
    /\ UNCHANGED <<media, file_path, gemini_file, tmp_files, gemini_files, uploads, cleanup, m_updates>>
    /\ UNCHANGED nonMediaVars

\* lines 921-923: the except branch
MediaExcept(p) ==
    /\ m_pc[p] = "except"
    /\ m_reply' = [m_reply EXCEPT ![p] = Append(@, "apology")]
    /\ m_pc' = [m_pc EXCEPT ![p] = "finally_local"]
    /\ UNCHANGED <<media, file_path, gemini_file, tmp_files, gemini_files, uploads, cleanup, m_updates>>
    /\ UNCHANGED nonMediaVars

\* lines 926-928: os.remove when the file exists; an OSError it raises leaves the
\* finally block at once
remove_local(p, remove_ok) ==
    IF file_path[p] # None /\ tmp_files[file_path[p][1]] # None
    THEN IF remove_ok
         THEN /\ tmp_files' = [tmp_files EXCEPT ![file_path[p][1]] = None]
              /\ cleanup' = [cleanup EXCEPT ![p] = Append(@, "removed")]
              /\ m_pc' = [m_pc EXCEPT ![p] = "finally_remote"]
         ELSE /\ cleanup' = [cleanup EXCEPT ![p] = Append(@, "remove_failed")]
              /\ m_pc' = [m_pc EXCEPT ![p] = "raised"]
              /\ UNCHANGED tmp_files
    ELSE /\ m_pc' = [m_pc EXCEPT ![p] = "finally_remote"]
         /\ UNCHANGED <<tmp_files, cleanup>>

MediaFinallyLocal(p) ==
    /\ m_pc[p] = "finally_local"
    /\ \E remove_ok \in BOOLEAN : remove_local(p, remove_ok)
    /\ UNCHANGED <<media, file_path, gemini_file, m_reply, gemini_files, uploads, m_updates>>
    /\ UNCHANGED nonMediaVars

\* lines 929-931: genai.delete_file when a handle was obtained; an exception it
\* raises leaves the handler
delete_remote(p, delete_ok) ==
    IF gemini_file[p] # None
    THEN IF delete_ok
         THEN /\ gemini_files' = gemini_files \ {gemini_file[p][1]}
              /\ cleanup' = [cleanup EXCEPT ![p] = Append(@, "deleted")]
              /\ m_pc' = [m_pc EXCEPT ![p] = "done"]
         ELSE /\ cleanup' = [cleanup EXCEPT ![p] = Append(@, "delete_failed")]
              /\ m_pc' = [m_pc EXCEPT ![p] = "raised"]
              /\ UNCHANGED gemini_files
    ELSE /\ m_pc' = [m_pc EXCEPT ![p] = "done"]
         /\ UNCHANGED <<gemini_files, cleanup>>

MediaFinallyRemote(p) ==
    /\ m_pc[p] = "finally_remote"
    /\ \E delete_ok \in BOOLEAN : delete_remote(p, delete_ok)
    /\ UNCHANGED <<media, file_path, gemini_file, m_reply, tmp_files, uploads, m_updates>>
    /\ UNCHANGED nonMediaVars

MediaNext ==
    \/ \E p \in Procs, kind \in MediaKinds, fid \in FileIds :
          MediaStart(p, kind, fid) /\ UNCHANGED webVars
    \/ \E p \in Procs : MediaNotify(p)
    \/ \E p \in Procs : MediaGetFile(p)
    \/ \E p \in Procs : MediaDownload(p)
    \/ \E p \in Procs : MediaUpload(p)
    \/ \E p \in Procs : MediaGenerate(p)
    \/ \E p \in Procs : MediaSendResult(p)
    \/ \E p \in Procs : MediaExcept(p)
    \/ \E p \in Procs : MediaFinallyLocal(p)
    \/ \E p \in Procs : MediaFinallyRemote(p)


\* --------------------------------------------------------- handle_document

\* Python's s[a:b] for 0 <= a <= b
Slice(s, a, b) == SubSeq(s, a + 1, IF b < Len(s) THEN b ELSE Len(s))

\* a text of n characters; the characters depend on the position and on k, so that
\* a segment cut at the wrong place, left out or repeated differs from the right one
TextOf(n, k) == [j \in 1..n |-> ((j * k) % 5) + 1]

\* the lengths tried
Lengths == {n \in {c * ChunkSize + d : c \in 0..MaxChunks, d \in (0 - Slack)..Slack} : n >= 0}

\* document.file_name
FileNames == {<<6>>, <<6, 7, 8>>}
\* line 976: f"Resumo do PDF '{document.file_name}':\n\n", 15 characters before the
\* name and 4 after it (characters of the header are written 0)
Header(file_name) == [j \in 1..15 |-> 0] \o file_name \o [j \in 1..4 |-> 0]

\* response.text of the summary: a 9,000-character one, an empty one, and those
\* that bring the whole text to one of the lengths tried
ResponseLengths(file_name) ==
    {0, 9000} \cup {n - Len(Header(file_name)) : n \in {m \in Lengths : m >= Len(Header(file_name))}}

\* a segment one character short
segment_short(s, off) == Slice(s, off, off + ChunkSize - 1)

\* line 980: response_text[i:i+4096]
segment(s, off) == Slice(s, off, off + ChunkSize)

\* a loop that runs once more when the length is a multiple of the step
more_chunks_inclusive(s, off) == off <= Len(s)

\* line 979: range(0, len(response_text), 4096) has a next value i
more_chunks(s, off) == off < Len(s)

Message(kind) == [kind |-> kind, text |-> <<>>, offset |-> 0, delivered |-> TRUE]

DocInit ==
    /\ d_pc = "idle"
    /\ document = [mime_type |-> "application/pdf", file_name |-> <<6>>]
    /\ response_text = <<>>
    /\ chunk_i = 0
    /\ d_reply = <<>>

\* the chunk loop started on a text of its own
ChunkInit ==
    /\ d_pc = "chunks"
    /\ document = [mime_type |-> "application/pdf", file_name |-> <<6>>]
    /\ response_text \in {TextOf(n, k) : n \in Lengths, k \in 1..2}
    /\ chunk_i = 0
    /\ d_reply = <<>>

\* lines 933-945: the mime type check, then the processing notice
DocStart(mime, file_name) ==
    /\ d_pc \in {"idle", "done"}
    /\ document' = [mime_type |-> mime, file_name |-> file_name]
    /\ response_text' = <<>>
    /\ chunk_i' = 0
    /\ IF mime # "application/pdf"
       THEN /\ d_reply' = <<Message("not_pdf")>>
            /\ d_pc' = "done"
       ELSE /\ d_reply' = <<Message("processing")>>
            /\ d_pc' = "download"
    /\ UNCHANGED docFrame

\* lines 948-951: get_file and download_to_memory
DocDownload ==
    /\ d_pc = "download"
    /\ \E ok \in BOOLEAN : d_pc' = IF ok THEN "extract" ELSE "except"
    /\ UNCHANGED <<document, response_text, chunk_i, d_reply>>
    /\ UNCHANGED nonDocVars

\* a handler that asks for a summary of a text that is all whitespace
after_extract_summarize_blank(outcome) == IF outcome = "error" THEN "except" ELSE "generate"

\* lines 955-964: where handle_document goes after the extraction: to the except
\* branch when pymupdf raised, out (line 962) when the text is empty once
\* stripped, else on to the prompt
after_extract(outcome) ==
    CASE outcome = "error" -> "except"
      [] outcome = "blank" -> "done"
      [] OTHER -> "generate"

\* lines 955-962: the text of the pages; none but whitespace ends the handler
DocExtract ==
    /\ d_pc = "extract"
    /\ \E outcome \in {"error", "blank", "text"} :
          /\ d_pc' = after_extract(outcome)
          /\ d_reply' = IF outcome = "blank" THEN Append(d_reply, Message("no_text")) ELSE d_reply
    /\ UNCHANGED <<document, response_text, chunk_i>>
    /\ UNCHANGED nonDocVars

\* lines 964-976: the AI call and the text to send, for AI responses of the
\* lengths given
DocGenerateOf(lengths) ==
    /\ d_pc = "generate"
    /\ \/ /\ d_pc' = "except"
          /\ UNCHANGED response_text
       \/ \E n \in lengths, k \in 1..2 :
             /\ response_text' = Header(document.file_name) \o TextOf(n, k)
             /\ d_pc' = "chunks"
    /\ chunk_i' = 0
    /\ UNCHANGED <<document, d_reply>>
    /\ UNCHANGED nonDocVars

DocGenerate == DocGenerateOf(ResponseLengths(document.file_name))

\* a send that lets the exception of a failed delivery out to its caller
send_message_raises(delivered) == ~delivered

\* send_safe_message, lines 742-748: whether the call ends with an exception; the
\* whole body is inside try/except Exception, so it does not, delivered or not
send_safe_message_raises(delivered) == FALSE

\* lines 979-980: one turn of the loop; send_safe_message swallows a failed send
DocSendChunk ==
    /\ d_pc = "chunks"
    /\ more_chunks(response_text, chunk_i)
    /\ \E delivered \in BOOLEAN :
          /\ d_reply' = Append(d_reply, [kind |-> "chunk", text |-> segment(response_text, chunk_i),
                                         offset |-> chunk_i, delivered |-> delivered])
          /\ d_pc' = IF send_safe_message_raises(delivered) THEN "except" ELSE d_pc
    /\ chunk_i' = chunk_i + ChunkSize
    /\ UNCHANGED <<document, response_text>>
    /\ UNCHANGED nonDocVars

\* line 981: the loop is over
DocChunksDone ==
    /\ d_pc = "chunks"
    /\ ~more_chunks(response_text, chunk_i)
    /\ d_pc' = "done"
    /\ UNCHANGED <<document, response_text, chunk_i, d_reply>>
    /\ UNCHANGED nonDocVars

\* lines 983-985: the except branch
DocExcept ==
    /\ d_pc = "except"
    /\ d_reply' = Append(d_reply, Message("apology"))
    /\ d_pc' = "done"
    /\ UNCHANGED <<document, response_text, chunk_i>>
    /\ UNCHANGED nonDocVars

ChunkNext ==
    \/ DocSendChunk
    \/ DocChunksDone

DocNext ==
    \/ \E mime \in {"application/pdf", "image/png"}, file_name \in FileNames :
          DocStart(mime, file_name) /\ UNCHANGED webVars
    \/ DocDownload
    \/ DocExtract
    \/ DocGenerate
    \/ DocSendChunk
    \/ DocChunksDone
    \/ DocExcept


\* ------------------------------------------------------------ the actions

\* no handler invocation has begun
InvocationsInit ==
    /\ pc = [p \in Procs |-> "idle"]
    /\ handler = [p \in Procs |-> "none"]
    /\ chat_id = [p \in Procs |-> 1]
    /\ text = [p \in Procs |-> "a"]
    /\ context = [p \in Procs |-> None]
    /\ chat_history = [p \in Procs |-> [alias |-> FALSE, val |-> <<>>]]
    /\ initial_history = [p \in Procs |-> <<>>]
    /\ serializable_history = [p \in Procs |-> <<>>]
    /\ flag = [p \in Procs |-> FALSE]
    /\ reply = [p \in Procs |-> <<>>]
    /\ updates = 0
    /\ prior = [p \in Procs |-> <<>>]
    /\ write_order = <<>>
    /\ had_history = [p \in Procs |-> FALSE]

TextInit ==
    /\ edge_contexts \in [Chats -> SeedEntries]
    /\ temporary_chat_contexts = [c \in Chats |-> None]
    /\ last_store_op = [c \in Chats |-> "none"]
    /\ InvocationsInit

\* a local list that is not in use
NoList == [alias |-> FALSE, val |-> <<>>]

\* the handler returns: its frame (context, initial_history) is gone
Return(p) ==
    /\ pc' = [pc EXCEPT ![p] = "done"]
    /\ context' = [context EXCEPT ![p] = None]
    /\ initial_history' = [initial_history EXCEPT ![p] = <<>>]

\* the invocations other than p whose chat_history is the fallback dict's list of chat c
Aliases(p, c) == {q \in Procs \ {p} : chat_history[q].alias /\ chat_id[q] = c}

\* the fallback dict's list of chat c is replaced or deleted: the invocations that
\* hold the old list keep it, and it is no longer the dict's
Detached(c) ==
    [q \in Procs |-> IF chat_history[q].alias /\ chat_id[q] = c
                     THEN [chat_history[q] EXCEPT !.alias = FALSE]
                     ELSE chat_history[q]]

\* the dispatcher hands an update to a handler (webhook -> process_update)
Start(p, h, c, t) ==
    /\ pc[p] \in {"idle", "done"}
    /\ updates < MaxUpdates
    /\ updates' = updates + 1
    /\ handler' = [handler EXCEPT ![p] = h]
    /\ chat_id' = [chat_id EXCEPT ![p] = c]
    /\ text' = [text EXCEPT ![p] = t]
    /\ pc' = [pc EXCEPT ![p] = IF h = "text" THEN "get_remote" ELSE "delete_remote"]
    /\ context' = [context EXCEPT ![p] = None]
    /\ chat_history' = [chat_history EXCEPT ![p] = NoList]
    /\ initial_history' = [initial_history EXCEPT ![p] = <<>>]
    /\ serializable_history' = [serializable_history EXCEPT ![p] = <<>>]
    /\ flag' = [flag EXCEPT ![p] = FALSE]
    /\ reply' = [reply EXCEPT ![p] = <<>>]
    /\ prior' = [prior EXCEPT ![p] = <<>>]
    /\ write_order' = SelectSeq(write_order, LAMBDA q : q # p)
    /\ had_history' = [had_history EXCEPT ![p] =
          edge_contexts[c] # None \/ temporary_chat_contexts[c] # None]
    /\ UNCHANGED <<storeVars, last_store_op>>
    /\ UNCHANGED textFrame

\* handle_text, line 798 -> get_chat_context line 195: the remote read
TextReadRemote(p) ==
    /\ pc[p] = "get_remote"
    /\ \E read_ok \in BOOLEAN :
          context' = [context EXCEPT ![p] = get_config_item(edge_contexts, chat_id[p], read_ok)]
    /\ pc' = [pc EXCEPT ![p] = "get_local"]
    /\ UNCHANGED <<storeVars, handler, chat_id, text, chat_history, initial_history,
                   serializable_history, flag, reply, updates, ghostVars>>
    /\ UNCHANGED nonTextVars

\* get_chat_context lines 196-206, then handle_text lines 802-808: the append goes
\* to the list get_chat_context returned, which may be the fallback dict's own
TextGetLocal(p) ==
    /\ pc[p] = "get_local"
    /\ LET c == chat_id[p]
           got == get_chat_context(context[p], temporary_chat_contexts, c)
           appended == append_user(got.val, text[p])
           cut == truncate(appended)
       IN  /\ temporary_chat_contexts' =
                 IF got.alias THEN [temporary_chat_contexts EXCEPT ![c] = Some(appended)]
                 ELSE temporary_chat_contexts
           /\ chat_history' =
                 [q \in Procs |->
                    IF q = p THEN [alias |-> got.alias /\ Len(appended) <= HistoryLimit, val |-> cut]
                    ELSE IF got.alias /\ q \in Aliases(p, c)
                         THEN [chat_history[q] EXCEPT !.val = appended]
                         ELSE chat_history[q]]
           /\ prior' = [prior EXCEPT ![p] = got.val]
    /\ pc' = [pc EXCEPT ![p] = "config"]
    /\ UNCHANGED <<edge_contexts, handler, chat_id, text, context, initial_history,
                   serializable_history, flag, reply, updates, last_store_op, write_order,
                   had_history>>
    /\ UNCHANGED nonTextVars

\* lines 810-822: get_all_configs (never raises), the model object (its constructor
\* may raise on the configuration read), initial_history and start_chat
TextConfig(p) ==
    /\ pc[p] = "config"
    /\ \E model_ok \in BOOLEAN :
          IF model_ok
          THEN /\ initial_history' = [initial_history EXCEPT ![p] = AllButLast(chat_history[p].val)]
               /\ pc' = [pc EXCEPT ![p] = "ai"]
          ELSE /\ pc' = [pc EXCEPT ![p] = "apologize"]
               /\ UNCHANGED initial_history
    /\ UNCHANGED <<storeVars, handler, chat_id, text, context, chat_history,
                   serializable_history, flag, reply, updates, ghostVars>>
    /\ UNCHANGED nonTextVars

\* a handler that goes on to the save when send_message raised
after_ai_always_save(ai_ok) == "save_remote"

\* lines 826-841: where handle_text goes after send_message: on to the save, or
\* to the except branch when it raised
after_ai(ai_ok) == IF ai_ok THEN "save_remote" ELSE "apologize"

\* lines 826-835: send_message and the session's history, or the exception
TextAI(p) ==
    /\ pc[p] = "ai"
    /\ \E ai_ok \in BOOLEAN :
          /\ serializable_history' =
                IF ai_ok
                THEN [serializable_history EXCEPT ![p] =
                         session_history(initial_history[p], text[p], ReplyText)]
                ELSE serializable_history
          /\ pc' = [pc EXCEPT ![p] = after_ai(ai_ok)]
    /\ UNCHANGED <<storeVars, handler, chat_id, text, context, chat_history,
                   initial_history, flag, reply, updates, ghostVars>>
    /\ UNCHANGED nonTextVars

\* line 838 -> save_chat_context line 214: the remote write
TextSaveRemote(p) ==
    /\ pc[p] = "save_remote"
    /\ \E write_ok \in BOOLEAN :
          /\ edge_contexts' = save_config_item(edge_contexts, chat_id[p], serializable_history[p], write_ok)
          /\ flag' = [flag EXCEPT ![p] = write_ok]
          /\ write_order' = IF write_ok THEN Append(write_order, p) ELSE write_order
    /\ pc' = [pc EXCEPT ![p] = "save_local"]
    /\ UNCHANGED <<temporary_chat_contexts, handler, chat_id, text, context, chat_history,
                   initial_history, serializable_history, reply, updates, last_store_op, prior,
                   had_history>>
    /\ UNCHANGED nonTextVars

\* save_chat_context lines 215-221, then line 840: response.text (it raises when
\* the response holds no text) and the reply
TextSaveLocal(p) ==
    /\ pc[p] = "save_local"
    /\ temporary_chat_contexts' =
          save_chat_context(temporary_chat_contexts, chat_id[p], serializable_history[p], flag[p])
    /\ chat_history' = [Detached(chat_id[p]) EXCEPT ![p] = NoList]
    /\ last_store_op' = [last_store_op EXCEPT ![chat_id[p]] = IF flag[p] THEN "saved" ELSE "save_failed"]
    /\ \E has_text \in BOOLEAN :
          IF has_text
          THEN /\ reply' = [reply EXCEPT ![p] = Append(@, "model_text")]
               /\ Return(p)
          ELSE /\ pc' = [pc EXCEPT ![p] = "apologize"]
               /\ UNCHANGED <<reply, context, initial_history>>
    /\ UNCHANGED <<edge_contexts, handler, chat_id, text,
                   serializable_history, flag, updates, prior, write_order, had_history>>
    /\ UNCHANGED nonTextVars

\* lines 841-843: the except branch
TextApologize(p) ==
    /\ pc[p] = "apologize"
    /\ reply' = [reply EXCEPT ![p] = Append(@, "apology")]
    /\ chat_history' = [chat_history EXCEPT ![p] = NoList]
    /\ Return(p)
    /\ UNCHANGED <<storeVars, handler, chat_id, text,
                   serializable_history, flag, updates, ghostVars>>
    /\ UNCHANGED nonTextVars

\* clear_context line 776: the remote delete
ClearDeleteRemote(p) ==
    /\ pc[p] = "delete_remote"
    /\ \E delete_ok \in BOOLEAN :
          /\ edge_contexts' = delete_config_item(edge_contexts, chat_id[p], delete_ok)
          /\ flag' = [flag EXCEPT ![p] = delete_ok]
    /\ pc' = [pc EXCEPT ![p] = "clear_local"]
    /\ UNCHANGED <<temporary_chat_contexts, handler, chat_id, text, context, chat_history,
                   initial_history, serializable_history, reply, updates, ghostVars>>
    /\ UNCHANGED nonTextVars

\* clear_context lines 779-788: the fallback entry goes, then the message
ClearLocal(p) ==
    /\ pc[p] = "clear_local"
    /\ temporary_chat_contexts' = clear_fallback(temporary_chat_contexts, chat_id[p], flag[p])
    /\ chat_history' = Detached(chat_id[p])
    /\ last_store_op' = [last_store_op EXCEPT ![chat_id[p]] = "cleared"]
    /\ reply' = [reply EXCEPT ![p] = Append(@, clear_message(flag[p]))]
    /\ Return(p)
    /\ UNCHANGED <<edge_contexts, handler, chat_id, text,
                   serializable_history, flag, updates, prior, write_order, had_history>>
    /\ UNCHANGED nonTextVars

TextNext ==
    \/ \E p \in Procs, c \in Chats, t \in Texts : Start(p, "text", c, t) /\ UNCHANGED webVars
    \/ \E p \in Procs, c \in Chats : Start(p, "clear", c, "a") /\ UNCHANGED webVars
    \/ \E p \in Procs : TextReadRemote(p)
    \/ \E p \in Procs : TextGetLocal(p)
    \/ \E p \in Procs : TextConfig(p)
    \/ \E p \in Procs : TextAI(p)
    \/ \E p \in Procs : TextSaveRemote(p)
    \/ \E p \in Procs : TextSaveLocal(p)
    \/ \E p \in Procs : TextApologize(p)
    \/ \E p \in Procs : ClearDeleteRemote(p)
    \/ \E p \in Procs : ClearLocal(p)

\* ------------------------------------------------------- get_all_configs

HarmCategories == {"HARM_CATEGORY_HARASSMENT", "HARM_CATEGORY_HATE_SPEECH",
                   "HARM_CATEGORY_SEXUALLY_EXPLICIT", "HARM_CATEGORY_DANGEROUS_CONTENT"}
DEFAULT_SAFETY_SETTINGS == [h \in HarmCategories |-> "BLOCK_MEDIUM_AND_ABOVE"]
DefaultInstruction == "You are a helpful assistant."

\* the dict both return statements of the failure paths build; a dict is a record
\* of its two keys, an absent key being None
Defaults == [system_instruction |-> Some(DefaultInstruction),
             safety_settings |-> Some(DEFAULT_SAFETY_SETTINGS)]

\* what an operator may have saved under the two keys
InstructionValues == {"Seja breve."}
SafetyValues == {[h \in HarmCategories |-> "BLOCK_NONE"]}
ConfigItems == [system_instruction : {None} \cup {Some(v) : v \in InstructionValues},
                safety_settings : {None} \cup {Some(v) : v \in SafetyValues}]

\* how the GET of /items ends: a JSON object with the keys that exist, a failed
\* connection, an error status, a body that is not JSON, JSON that is not an object
ReadOutcomes == {"ok", "transport_error", "http_error", "malformed_json", "not_object"}

\* the exception each of them raises inside the try block
exception_of(outcome) ==
    CASE outcome = "transport_error" -> "ConnectionError"
      [] outcome = "http_error" -> "HTTPError"
      [] outcome = "malformed_json" -> "JSONDecodeError"
      [] outcome = "not_object" -> "AttributeError"
      [] OTHER -> "none"

\* dict.setdefault
setdefault(dict, key, value) == IF dict[key] = None THEN [dict EXCEPT ![key] = Some(value)] ELSE dict

\* a read whose except clause names the errors of the requests library only
get_all_configs_requests_only(creds, outcome, items) ==
    IF ~creds.url \/ ~creds.token THEN [raised |-> None, value |-> Some(Defaults)]
    ELSE IF outcome = "ok"
    THEN [raised |-> None,
          value |-> Some(setdefault(setdefault(items, "system_instruction", DefaultInstruction),
                                    "safety_settings", DEFAULT_SAFETY_SETTINGS))]
    ELSE IF exception_of(outcome) \in {"ConnectionError", "HTTPError"}
    THEN [raised |-> None, value |-> Some(Defaults)]
    ELSE [raised |-> Some(exception_of(outcome)), value |-> None]

\* get_all_configs: what it returns and the exception it lets out, if any
get_all_configs(creds, outcome, items) ==
    IF ~creds.url \/ ~creds.token THEN [raised |-> None, value |-> Some(Defaults)]
    ELSE IF outcome = "ok"
    THEN [raised |-> None,
          value |-> Some(setdefault(setdefault(items, "system_instruction", DefaultInstruction),
                                    "safety_settings", DEFAULT_SAFETY_SETTINGS))]
    ELSE [raised |-> None, value |-> Some(Defaults)]

ConfigInit ==
    /\ edge_config \in ConfigItems
    /\ credentials \in [url : BOOLEAN, token : BOOLEAN]
    /\ configs = None
    /\ cfg_call = None

\* the configuration the other handlers run under: nothing saved, credentials set
OneConfig ==
    /\ edge_config = [system_instruction |-> None, safety_settings |-> None]
    /\ credentials = [url |-> TRUE, token |-> TRUE]

\* lines 811-815: what GenerativeModel is given, configs.get(key) of each key
model_settings(cfgs) ==
    IF cfgs = None THEN None
    ELSE Some([system_instruction |-> cfgs[1].system_instruction,
               safety_settings |-> cfgs[1].safety_settings])

\* a handler that keeps the configuration an earlier invocation read
GetAllConfigsCached(outcome) ==
    /\ LET got == get_all_configs(credentials, outcome, edge_config)
           kept == IF configs # None THEN configs ELSE got.value
       IN  /\ configs' = kept
           /\ cfg_call' = Some([outcome |-> outcome, items |-> edge_config, raised |-> got.raised,
                                before |-> configs, model |-> model_settings(kept)])
    /\ UNCHANGED <<edge_config, credentials>>
    /\ UNCHANGED <<textVars, calls, mediaVars, docVars, webVars>>

\* a handler invocation reads the configuration and builds its model from it
\* (lines 810-815, 860-865, 909-914, 966-971); before is what the invocation
\* before it had read
GetAllConfigs(outcome) ==
    /\ LET got == get_all_configs(credentials, outcome, edge_config)
       IN  /\ configs' = got.value
           /\ cfg_call' = Some([outcome |-> outcome, items |-> edge_config, raised |-> got.raised,
                                before |-> configs, model |-> model_settings(got.value)])
    /\ UNCHANGED <<edge_config, credentials>>
    /\ UNCHANGED <<textVars, calls, mediaVars, docVars, webVars>>

\* /admin/save_settings: the two items are saved one after the other, each with
\* its own PATCH; save_config_item fails without the credentials
SaveSettings(instruction, safety, ok_instruction, ok_safety) ==
    /\ LET creds == credentials.url /\ credentials.token
           first == save_config_item(edge_config, "system_instruction", instruction,
                                     creds /\ ok_instruction)
       IN  edge_config' = save_config_item(first, "safety_settings", safety, creds /\ ok_safety)
    /\ UNCHANGED <<credentials, configs, cfg_call>>
    /\ UNCHANGED <<textVars, calls, mediaVars, docVars, webVars>>

ConfigNext ==
    \/ \E outcome \in ReadOutcomes : GetAllConfigs(outcome)
    \/ \E instruction \in InstructionValues, safety \in SafetyValues,
          ok_instruction \in BOOLEAN, ok_safety \in BOOLEAN :
             SaveSettings(instruction, safety, ok_instruction, ok_safety)

\* ----------------------------------------------------------- error_handler

\* line 997
max_len == 3800

\* the characters html.escape replaces, and what it puts in their place
html_entity(ch) ==
    CASE ch = "&" -> <<"&", "a", "m", "p", ";">>
      [] ch = "<" -> <<"&", "l", "t", ";">>
      [] ch = ">" -> <<"&", "g", "t", ";">>
      [] ch = "\"" -> <<"&", "q", "u", "o", "t", ";">>
      [] ch = "'" -> <<"&", "#", "x", "2", "7", ";">>
      [] OTHER -> <<ch>>

RECURSIVE html_escape(_)
\* html.escape(s), quote=True: every character by its entity, in order
html_escape(s) ==
    IF Len(s) = 0 THEN <<>>
    ELSE IF Len(s) = 1 THEN html_entity(s[1])
    ELSE LET half == Len(s) \div 2
         IN  html_escape(SubSeq(s, 1, half)) \o html_escape(SubSeq(s, half + 1, Len(s)))

\* a cut that lets the whole text through
truncated_details_uncut(error_details) == error_details

\* line 1004: (error_details[:max_len] + '...') if len(error_details) > max_len
truncated_details(error_details) ==
    IF Len(error_details) > max_len
    THEN SubSeq(error_details, 1, max_len) \o <<".", ".", ".">>
    ELSE error_details

\* the heading and the blank line after it: 50 characters, none of them escaped
Heading == [j \in 1..50 |-> "h"]

\* lines 1006-1009: the text handed to send_safe_message
report_message(truncated) ==
    Heading \o <<"<", "p", "r", "e", ">">> \o html_escape(truncated) \o <<"<", "/", "p", "r", "e", ">">>

\* the update, chat_data, user_data and traceback put together (lines 998-1003):
\* texts of one repeated character, plain or escaped, up to and over max_len long
ErrorDetails == {[j \in 1..n |-> ch] : n \in {1, max_len, max_len + 1}, ch \in {"x", "<", "\""}}

\* the lengths of one report: the details, the cut payload, the text sent
Report(error_details) ==
    LET truncated == truncated_details(error_details)
    IN  [details |-> Len(error_details),
         payload |-> Len(truncated),
         text |-> Len(report_message(truncated))]

Reports == {Report(error_details) : error_details \in ErrorDetails}

\* the values DEVELOPER_CHAT_ID may have: unset, a chat id, not a number
DeveloperChatIds == {None, Some("99"), Some("x")}
\* int(s): the number, or None for the ValueError
int_of(s) == IF s = "99" THEN Some(99) ELSE None

\* a handler that reports whether or not DEVELOPER_CHAT_ID is set
error_handler_unconditional(dev) ==
    IF dev = None THEN [sent |-> <<[to |-> 0, kind |-> "report"]>>, raised |-> FALSE]
    ELSE IF int_of(dev[1]) = None THEN [sent |-> <<>>, raised |-> TRUE]
    ELSE [sent |-> <<[to |-> int_of(dev[1])[1], kind |-> "report"]>>, raised |-> FALSE]

\* lines 1012-1015: the messages error_handler sends, and whether it raises
error_handler(dev) ==
    IF dev = None THEN [sent |-> <<>>, raised |-> FALSE]
    ELSE IF int_of(dev[1]) = None THEN [sent |-> <<>>, raised |-> TRUE]
    ELSE [sent |-> <<[to |-> int_of(dev[1])[1], kind |-> "report"]>>, raised |-> FALSE]

\* ------------------------------------------- the webhook and the dispatcher

\* the slot the webhook's handler invocation runs in
WebProc == 1

\* what a POST to the webhook carries: a body that is not JSON, JSON that is not
\* an update, or an update: without a message, or with a message of one kind
Request(body, kind, c, t, mime, file_name, fid) ==
    [body |-> body, kind |-> kind, chat |-> c, text |-> t, mime_type |-> mime,
     file_name |-> file_name, file_id |-> fid]

Plain(body, kind, c) == Request(body, kind, c, "a", "", <<6>>, 1)

NoRequest == Plain("none", "none", 1)

Requests ==
    {Plain(b, "none", 1) : b \in {"invalid_json", "bad_update"}}
    \cup {Plain("update", k, c) :
            k \in {"no_message", "command_start", "command_clear", "command_other",
                   "photo", "sticker"},
            c \in Chats}
    \cup {Request("update", "text", c, t, "", <<6>>, 1) : c \in Chats, t \in Texts}
    \cup {Request("update", k, c, "a", "", <<6>>, fid) :
            k \in {"voice", "audio", "audio_noname", "video"}, c \in Chats, fid \in FileIds}
    \cup {Request("update", "document", c, "a", mime, file_name, 1) :
            c \in Chats, mime \in {"application/pdf", "image/png"}, file_name \in FileNames}

\* a handler table whose text handler takes the commands too (filters.TEXT alone)
check_update_text_commands(req) ==
    CASE req.kind = "command_start" -> "start"
      [] req.kind = "command_clear" -> "clear"
      [] req.kind \in {"text", "command_other"} -> "text"
      [] req.kind = "photo" -> "photo"
      [] req.kind \in {"voice", "audio", "audio_noname"} -> "audio"
      [] req.kind = "video" -> "video"
      [] req.kind = "document" /\ req.mime_type = "application/pdf" -> "document"
      [] OTHER -> "none"

\* a handler table that hands photos to the text handler
check_update_photo_as_text(req) ==
    CASE req.kind = "command_start" -> "start"
      [] req.kind = "command_clear" -> "clear"
      [] req.kind \in {"text", "photo"} -> "text"
      [] req.kind \in {"voice", "audio", "audio_noname"} -> "audio"
      [] req.kind = "video" -> "video"
      [] req.kind = "document" /\ req.mime_type = "application/pdf" -> "document"
      [] OTHER -> "none"

\* lines 1018-1024: the handler whose filter is the first to accept the update
check_update(req) ==
    CASE req.kind = "command_start" -> "start"
      [] req.kind = "command_clear" -> "clear"
      [] req.kind = "text" -> "text"
      [] req.kind = "photo" -> "photo"
      [] req.kind \in {"voice", "audio", "audio_noname"} -> "audio"
      [] req.kind = "video" -> "video"
      [] req.kind = "document" /\ req.mime_type = "application/pdf" -> "document"
      [] OTHER -> "none"

\* the exceptions the try block of webhook may see; all derive from Exception
Exceptions == {"JSONDecodeError", "BadRequest", "TypeError", "RuntimeError"}

\* a webhook whose only except clause is the one for json.JSONDecodeError
webhook_result_json_only(exc) ==
    IF exc = "none" \/ exc = "JSONDecodeError" THEN "ok" ELSE "error"

\* lines 1041-1048: what webhook returns when the try block ended with exc
webhook_result(exc) ==
    IF exc = "none" \/ exc = "JSONDecodeError" \/ exc \in Exceptions THEN "ok" ELSE "error"

WebInit ==
    /\ w_pc = "idle"
    /\ w_update = NoRequest
    /\ w_exc = "none"
    /\ w_response = None
    /\ w_sent = <<>>
    /\ w_hook = FALSE
    /\ w_report = None
    /\ w_requests = 0
    /\ w_ai = 0
    /\ developer_chat_id \in DeveloperChatIds

\* the operator chat the other specifications run with
OneOperator == developer_chat_id = Some("99")

\* the lengths of the AI responses tried: the longest text the platform takes as
\* one message, and one character more
AiLengths == {ChunkSize, ChunkSize + 1}

\* lines 840, 870 and 919: len(text) of the message that carries an AI response of
\* n characters; handle_media puts f"Análise do {media_type}:\n" before it
message_length(h, n) == IF h \in {"audio", "video"} THEN 18 + n ELSE n

\* line 1031: a request arrives; ai is the length of the response the AI backend
\* has for it
Accept(req, next_pc, sent, exc, ai) ==
    /\ w_pc = "idle"
    /\ w_requests < MaxRequests
    /\ w_requests' = w_requests + 1
    /\ w_ai' = ai
    /\ w_update' = req
    /\ w_pc' = next_pc
    /\ w_sent' = sent
    /\ w_exc' = exc
    /\ w_response' = None
    /\ w_hook' = FALSE
    /\ w_report' = None
    /\ UNCHANGED developer_chat_id

\* lines 1034-1044: get_json, de_json or asyncio.run raises; the except clauses
WebhookRejected(req) ==
    /\ \E exc \in Exceptions :
          /\ \/ req.body = "invalid_json" /\ exc \in {"JSONDecodeError", "BadRequest"}
             \/ req.body = "bad_update" /\ exc = "TypeError"
             \/ req.body = "update" /\ exc = "RuntimeError"
          /\ Accept(req, "returning", <<>>, exc, 0)
    /\ UNCHANGED <<textVars, calls, mediaVars, docVars, cfgVars>>

\* no handler accepts the update: process_update returns
DispatchNone(req) ==
    /\ req.body = "update"
    /\ check_update(req) = "none"
    /\ Accept(req, "returning", <<>>, "none", 0)
    /\ UNCHANGED <<textVars, calls, mediaVars, docVars, cfgVars>>

\* start, lines 752-766: the welcome message
DispatchStart(req) ==
    /\ req.body = "update"
    /\ check_update(req) = "start"
    /\ Accept(req, "returning", <<[to |-> req.chat, kind |-> "welcome"]>>, "none", 0)
    /\ UNCHANGED <<textVars, calls, mediaVars, docVars, cfgVars>>

\* handle_photo begins, lines 845-850: the notice
DispatchPhoto(req) ==
    /\ req.body = "update"
    /\ check_update(req) = "photo"
    /\ \E ai \in AiLengths :
          Accept(req, "photo", <<[to |-> req.chat, kind |-> "processing"]>>, "none", ai)
    /\ UNCHANGED <<textVars, calls, mediaVars, docVars, cfgVars>>

\* handle_photo, lines 851-873: get_file, the download, the image, the
\* configuration and generate_content, then the description, or the apology when
\* one of them raised
PhotoAnalyse ==
    /\ w_pc = "photo"
    /\ \E ok \in BOOLEAN :
          w_sent' = Append(w_sent, [to |-> w_update.chat,
                                    kind |-> IF ok THEN "analysis" ELSE "apology"])
    /\ w_pc' = "returning"
    /\ UNCHANGED <<w_update, w_exc, w_response, w_hook, w_report, w_requests, w_ai,
                   developer_chat_id>>
    /\ UNCHANGED <<textVars, calls, mediaVars, docVars, cfgVars>>

\* handle_text and clear_context begin
DispatchText(req) ==
    /\ req.body = "update"
    /\ check_update(req) \in {"text", "clear"}
    /\ \E ai \in (IF check_update(req) = "text" THEN AiLengths ELSE {0}) :
          Accept(req, "text", <<>>, "none", ai)
    /\ Start(WebProc, check_update(req), req.chat, req.text)

\* handle_media begins, with 'audio' or 'video'
DispatchMedia(req) ==
    /\ req.body = "update"
    /\ check_update(req) \in {"audio", "video"}
    /\ \E ai \in AiLengths : Accept(req, "media", <<>>, "none", ai)
    /\ MediaStart(WebProc, req.kind, req.file_id)

\* handle_document begins; the AI responses to a PDF tried here are the empty
\* ones: the slicing of the longer ones does not depend on the request
DispatchDocument(req) ==
    /\ req.body = "update"
    /\ check_update(req) = "document"
    /\ Accept(req, "document", <<>>, "none", 0)
    /\ DocStart(req.mime_type, req.file_name)

\* the handler returned
HandlerReturned ==
    /\ \/ w_pc = "text" /\ pc[WebProc] = "done"
       \/ w_pc = "media" /\ m_pc[WebProc] = "done"
       \/ w_pc = "document" /\ d_pc = "done"
    /\ w_pc' = "returning"
    /\ UNCHANGED <<w_update, w_exc, w_response, w_sent, w_hook, w_report, w_requests, w_ai,
                   developer_chat_id>>
    /\ UNCHANGED <<textVars, calls, mediaVars, docVars, cfgVars>>

\* the handler raised: the dispatcher calls error_handler (lines 988-1015); what
\* error_handler itself raises is logged by the dispatcher
ErrorHook ==
    /\ w_pc = "media" /\ m_pc[WebProc] = "raised"
    /\ \E r \in Reports : w_report' = Some(r)
    /\ w_sent' = w_sent \o error_handler(developer_chat_id).sent
    /\ w_hook' = TRUE
    /\ w_pc' = "returning"
    /\ UNCHANGED <<w_update, w_exc, w_response, w_requests, w_ai, developer_chat_id>>
    /\ UNCHANGED <<textVars, calls, mediaVars, docVars, cfgVars>>

\* lines 1041-1048: the try block is over and webhook returns; nothing of the
\* request and of its handler invocation is left but the answer, the stores and
\* the files
WebhookReturn ==
    /\ w_pc = "returning"
    /\ w_response' = Some(webhook_result(w_exc))
    /\ w_pc' = "idle"
    /\ w_update' = NoRequest
    /\ w_sent' = <<>>
    /\ w_hook' = FALSE
    /\ w_report' = None
    /\ w_ai' = 0
    /\ UNCHANGED <<w_exc, w_requests, developer_chat_id>>
    /\ pc' = [pc EXCEPT ![WebProc] = "idle"]
    /\ handler' = [handler EXCEPT ![WebProc] = "none"]
    /\ chat_id' = [chat_id EXCEPT ![WebProc] = 1]
    /\ text' = [text EXCEPT ![WebProc] = "a"]
    /\ serializable_history' = [serializable_history EXCEPT ![WebProc] = <<>>]
    /\ flag' = [flag EXCEPT ![WebProc] = FALSE]
    /\ reply' = [reply EXCEPT ![WebProc] = <<>>]
    /\ prior' = [prior EXCEPT ![WebProc] = <<>>]
    /\ write_order' = <<>>
    /\ had_history' = [had_history EXCEPT ![WebProc] = FALSE]
    /\ UNCHANGED <<storeVars, context, chat_history, initial_history, updates, last_store_op>>
    /\ m_pc' = [m_pc EXCEPT ![WebProc] = "idle"]
    /\ media' = [media EXCEPT ![WebProc] = [kind |-> "voice", file_id |-> 1]]
    /\ file_path' = [file_path EXCEPT ![WebProc] = None]
    /\ gemini_file' = [gemini_file EXCEPT ![WebProc] = None]
    /\ m_reply' = [m_reply EXCEPT ![WebProc] = <<>>]
    /\ cleanup' = [cleanup EXCEPT ![WebProc] = <<>>]
    /\ UNCHANGED <<tmp_files, gemini_files, uploads, m_updates>>
    /\ d_pc' = "idle"
    /\ document' = [mime_type |-> "application/pdf", file_name |-> <<6>>]
    /\ response_text' = <<>>
    /\ chunk_i' = 0
    /\ d_reply' = <<>>
    /\ UNCHANGED <<calls, cfgVars>>

DispatchNext ==
    \/ \E req \in Requests : WebhookRejected(req)
    \/ \E req \in Requests : DispatchNone(req)
    \/ \E req \in Requests : DispatchStart(req)
    \/ \E req \in Requests : DispatchPhoto(req)
    \/ \E req \in Requests : DispatchText(req)
    \/ \E req \in Requests : DispatchMedia(req)
    \/ \E req \in Requests : DispatchDocument(req)
    \/ PhotoAnalyse
    \/ HandlerReturned
    \/ ErrorHook
    \/ WebhookReturn
    \/ TextReadRemote(WebProc)
    \/ TextGetLocal(WebProc)
    \/ TextConfig(WebProc)
    \/ TextAI(WebProc)
    \/ TextSaveRemote(WebProc)
    \/ TextSaveLocal(WebProc)
    \/ TextApologize(WebProc)
    \/ ClearDeleteRemote(WebProc)
    \/ ClearLocal(WebProc)
    \/ MediaNotify(WebProc)
    \/ MediaGetFile(WebProc)
    \/ MediaDownload(WebProc)
    \/ MediaUpload(WebProc)
    \/ MediaGenerate(WebProc)
    \/ MediaSendResult(WebProc)
    \/ MediaExcept(WebProc)
    \/ MediaFinallyLocal(WebProc)
    \/ MediaFinallyRemote(WebProc)
    \/ DocDownload
    \/ DocExtract
    \/ DocGenerateOf({w_ai})
    \/ DocSendChunk
    \/ DocChunksDone
    \/ DocExcept

Init ==
    /\ TextInit /\ calls = <<>> /\ MediaInit /\ DocInit
    /\ WebInit /\ OneOperator
    /\ ConfigInit /\ OneConfig

Spec == Init /\ [][TextNext]_vars

\* ----------------------------------------- the context store, called directly

\* the histories a caller saves
SavedHistories == {seed_history(1), exchange(seed_history(1), "a"), seed_history(MaxSeedExchanges)}

\* the last call and the one before it
Record(call) == IF Len(calls) = 0 THEN <<call>> ELSE <<calls[Len(calls)], call>>

\* save_chat_context(chat, hist), whole: lines 213-221
CallSave(c, h, write_ok) ==
    /\ edge_contexts' = save_config_item(edge_contexts, c, h, write_ok)
    /\ temporary_chat_contexts' = save_chat_context(temporary_chat_contexts, c, h, write_ok)
    /\ calls' = Record([op |-> "save", chat |-> c, hist |-> h, ok |-> write_ok, result |-> <<>>])
    /\ UNCHANGED <<invVars, ghostVars, mediaVars, docVars, webVars, cfgVars>>

\* get_chat_context(chat), whole: lines 194-206
CallGet(c, read_ok) ==
    /\ calls' = Record([op |-> "get", chat |-> c, hist |-> <<>>, ok |-> read_ok,
                        result |-> get_chat_context(get_config_item(edge_contexts, c, read_ok),
                                                    temporary_chat_contexts, c).val])
    /\ UNCHANGED <<storeVars, invVars, ghostVars, mediaVars, docVars, webVars, cfgVars>>

\* what clear_context does to the store: lines 776-780
CallClear(c, delete_ok) ==
    /\ edge_contexts' = delete_config_item(edge_contexts, c, delete_ok)
    /\ temporary_chat_contexts' = clear_fallback(temporary_chat_contexts, c, delete_ok)
    /\ calls' = Record([op |-> "clear", chat |-> c, hist |-> <<>>, ok |-> delete_ok, result |-> <<>>])
    /\ UNCHANGED <<invVars, ghostVars, mediaVars, docVars, webVars, cfgVars>>

StoreNext ==
    \/ \E c \in Chats, h \in SavedHistories, write_ok \in BOOLEAN : CallSave(c, h, write_ok)
    \/ \E c \in Chats, read_ok \in BOOLEAN : CallGet(c, read_ok)
    \/ \E c \in Chats, delete_ok \in BOOLEAN : CallClear(c, delete_ok)

StoreSpec == Init /\ [][StoreNext]_vars

\* handle_media and handle_document never read the context store: one stored
\* history per chat is enough there
OneHistory == edge_contexts = [c \in Chats |-> Some(seed_history(MaxSeedExchanges))]

MediaSpecInit == Init /\ OneHistory

\* handle_document, from the update to its return
DocSpecInit == Init /\ OneHistory

DocSpec == DocSpecInit /\ [][DocNext]_vars

\* the chunk loop of lines 979-980 on a text of its own
ChunkSpecInit ==
    /\ TextInit /\ OneHistory /\ calls = <<>> /\ MediaInit /\ ChunkInit
    /\ WebInit /\ OneOperator
    /\ ConfigInit /\ OneConfig

ChunkSpec == ChunkSpecInit /\ [][ChunkNext]_vars

MediaSpec == MediaSpecInit /\ [][MediaNext]_vars

\* the process after an earlier text exchange whose remote write failed: the
\* fallback dict holds that exchange
WarmHistory == exchange(<<>>, "a")

WarmInit ==
    /\ edge_contexts = [c \in Chats |-> None]
    /\ temporary_chat_contexts \in [Chats -> {None, Some(WarmHistory)}]
    /\ last_store_op = [c \in Chats |->
          IF temporary_chat_contexts[c] = None THEN "none" ELSE "save_failed"]
    /\ InvocationsInit
    /\ calls = <<>> /\ MediaInit /\ DocInit
    /\ WebInit /\ OneOperator
    /\ ConfigInit /\ OneConfig

WarmSpec == WarmInit /\ [][TextNext]_vars

\* get_all_configs and /admin/save_settings, under every configuration
ConfigSpecInit ==
    /\ TextInit /\ OneHistory /\ calls = <<>> /\ MediaInit /\ DocInit
    /\ WebInit /\ OneOperator
    /\ ConfigInit

ConfigSpec == ConfigSpecInit /\ [][ConfigNext]_vars

\* the webhook serving one request after the other
DispatchSpecInit ==
    /\ TextInit /\ OneHistory /\ calls = <<>> /\ MediaInit /\ DocInit
    /\ WebInit
    /\ ConfigInit /\ OneConfig

DispatchSpec == DispatchSpecInit /\ [][DispatchNext]_vars

\* ------------------------------------------------------------- the claims

Range(seq) == {seq[i] : i \in 1..Len(seq)}
ModelTurns(hist) == Cardinality({i \in 1..Len(hist) : hist[i].role = "model"})
StoredLen(entry) == IF entry = None THEN 0 ELSE Len(entry[1])

\* C1: for every chat, the history held in the remote store or in the fallback
\* dict never has more than 20 turns, whatever text exchanges ran.
C1_HistoryAtMostLimit ==
    \A c \in Chats :
        /\ StoredLen(edge_contexts[c]) <= HistoryLimit
        /\ StoredLen(temporary_chat_contexts[c]) <= HistoryLimit

\* C2: a get_chat_context(chat) whose remote read succeeds, made right after a
\* save_chat_context(chat, H) whose remote write succeeded, returns exactly H.
C2_SaveThenGet ==
    (/\ Len(calls) = 2
     /\ calls[1].op = "save" /\ calls[1].ok
     /\ calls[2].op = "get" /\ calls[2].ok
     /\ calls[2].chat = calls[1].chat)
    => calls[2].result = calls[1].hist

C2_Witness ==
    /\ Len(calls) = 2
    /\ calls[1].op = "save" /\ calls[1].ok
    /\ calls[2].op = "get" /\ calls[2].ok
    /\ calls[2].chat = calls[1].chat
    /\ calls[2].result = exchange(seed_history(1), "a")

\* C3: get_chat_context returns the remote entry when the read succeeds and the
\* entry exists; otherwise the fallback entry when there is one; otherwise the
\* empty history. (A get changes nothing, so the store is the one it read.)
C3_GetOrder ==
    (Len(calls) > 0 /\ calls[Len(calls)].op = "get") =>
        LET call == calls[Len(calls)]
            c == call.chat
        IN  call.result =
                IF call.ok /\ edge_contexts[c] # None THEN edge_contexts[c][1]
                ELSE IF temporary_chat_contexts[c] # None THEN temporary_chat_contexts[c][1]
                ELSE <<>>

C3_Witness ==
    /\ Len(calls) > 0
    /\ LET call == calls[Len(calls)]
           c == call.chat
       IN  /\ call.op = "get" /\ call.ok
           /\ edge_contexts[c] # None
           /\ temporary_chat_contexts[c] # None
           /\ temporary_chat_contexts[c] # edge_contexts[c]
           /\ call.result = edge_contexts[c][1]

\* C4: a chat has a fallback entry only if the last save for it that finished in
\* this process failed at the remote write and no /clear ran since; a save whose
\* remote write succeeded leaves no fallback entry for the chat, a save whose
\* remote write failed leaves the saved history there and the remote store as it was.
C4_FallbackLifecycle ==
    [][/\ \A c \in Chats :
             temporary_chat_contexts'[c] # None => last_store_op'[c] = "save_failed"
       /\ \A p \in Procs :
             (pc[p] = "save_local" /\ pc'[p] # "save_local") =>
                 temporary_chat_contexts'[chat_id[p]] =
                     IF flag[p] THEN None ELSE Some(serializable_history[p])
       /\ \A p \in Procs :
             (pc[p] = "save_remote" /\ pc'[p] = "save_local" /\ ~flag'[p]) =>
                 edge_contexts' = edge_contexts]_vars

C4_Witness ==
    \E p \in Procs :
        /\ handler[p] = "text" /\ pc[p] = "done" /\ ~flag[p]
        /\ temporary_chat_contexts[chat_id[p]] = Some(serializable_history[p])
        /\ last_store_op[chat_id[p]] = "save_failed"
        /\ edge_contexts[chat_id[p]] = Some(seed_history(MaxSeedExchanges))

\* two text invocations for one chat that read the same prior history and both
\* wrote the remote store, p first and q after it
BothSaved(p, q) ==
    /\ p # q
    /\ handler[p] = "text" /\ handler[q] = "text"
    /\ pc[p] = "done" /\ pc[q] = "done"
    /\ chat_id[p] = chat_id[q]
    /\ flag[p] /\ flag[q]
    /\ prior[p] = prior[q]
    /\ write_order = <<p, q>>

\* C5: two text invocations for one chat are not serialized. When both read the
\* same prior history and both save, the later save replaces the earlier one: the
\* persisted history is the later invocation's alone and holds one new exchange,
\* not two.
C5_LostUpdate ==
    \A p, q \in Procs :
        BothSaved(p, q) =>
            /\ edge_contexts[chat_id[q]] = Some(serializable_history[q])
            /\ ModelTurns(edge_contexts[chat_id[q]][1]) <= ModelTurns(prior[q]) + 1

C5_Witness ==
    \E p, q \in Procs :
        /\ BothSaved(p, q)
        /\ text[p] # text[q]
        /\ UserTurn(text[q]) \in Range(edge_contexts[chat_id[q]][1])
        /\ UserTurn(text[p]) \notin Range(edge_contexts[chat_id[q]][1])
        /\ UserTurn(text[p]) \in Range(serializable_history[p])

\* the calls of genai.delete_file an invocation made
DeletesIssued(p) ==
    Cardinality({i \in 1..Len(cleanup[p]) : cleanup[p][i] \in {"deleted", "delete_failed"}})

\* C6: on every exit path of handle_media the cleanup is complete when the handler
\* finishes: the local temp file no longer exists and, if an upload handle was
\* obtained, exactly one delete was issued for it.
C6_CleanupOnEveryExit ==
    \A p \in Procs :
        MediaFinished(p) =>
            /\ file_path[p] # None => tmp_files[file_path[p][1]] = None
            /\ gemini_file[p] # None => DeletesIssued(p) = 1

\* C7: the two deletions of the cleanup are attempted independently: when the
\* local deletion failed the remote one was still attempted (if a handle was
\* obtained), and when the remote deletion failed the local one was attempted.
C7_DeletionsIndependent ==
    \A p \in Procs :
        MediaFinished(p) =>
            /\ ("remove_failed" \in Range(cleanup[p]) /\ gemini_file[p] # None)
                  => DeletesIssued(p) = 1
            /\ ("delete_failed" \in Range(cleanup[p]) /\ file_path[p] # None)
                  => (tmp_files[file_path[p][1]] = None \/ "remove_failed" \in Range(cleanup[p]))

\* C8: a failed cleanup deletion never leaves the handler as an exception: the
\* handler completes normally (nothing reaches the dispatcher's error hook).
C8_CleanupFailureNotPropagated ==
    \A p \in Procs :
        ("remove_failed" \in Range(cleanup[p]) \/ "delete_failed" \in Range(cleanup[p]))
            => m_pc[p] # "raised"

\* the chunk messages passed to send_safe_message so far, in order
Chunks == SelectSeq(d_reply, LAMBDA m : m.kind = "chunk")

RECURSIVE Concat(_)
\* the texts of a sequence of messages, joined in order
Concat(msgs) == IF msgs = <<>> THEN <<>> ELSE msgs[1].text \o Concat(Tail(msgs))

\* C9: the segments the 4096-step slicing produces, joined in order, are the text
\* itself (at every turn of the loop they are the text up to the loop variable);
\* no segment is longer than 4096; an empty text yields no segment.
C9_ChunksReproduceText ==
    /\ Concat(Chunks) = Slice(response_text, 0, chunk_i)
    /\ \A n \in 1..Len(Chunks) : Len(Chunks[n].text) <= ChunkSize
    /\ d_pc = "done" => Concat(Chunks) = response_text
    /\ response_text = <<>> => d_reply = <<>>

C9_Witness ==
    /\ d_pc = "done"
    /\ Len(response_text) = 2 * ChunkSize + 1
    /\ Len(Chunks) = 3
    /\ Len(Chunks[3].text) = 1
    /\ Concat(Chunks) = response_text

\* C10: when handle_document has sent a summary whose whole text (header line and
\* AI response) has length L, exactly ceil(L/4096) messages were attempted after the
\* processing notice, at offsets 0, 4096, 8192, ... in that order; a text of 8193
\* to 12288 characters gives exactly 3.
C10_ChunkCount ==
    (d_pc = "done" /\ response_text # <<>>) =>
        LET L == Len(response_text) IN
        /\ Len(Chunks) = (L + ChunkSize - 1) \div ChunkSize
        /\ \A n \in 1..Len(Chunks) : Chunks[n].offset = (n - 1) * ChunkSize
        /\ d_reply = <<Message("processing")>> \o Chunks
        /\ (L >= 2 * ChunkSize + 1 /\ L <= 3 * ChunkSize) => Len(Chunks) = 3

C10_Witness ==
    /\ d_pc = "done"
    /\ Len(response_text) = Len(Header(document.file_name)) + 9000
    /\ Len(Chunks) = 3
    /\ \A n \in 1..3 : Chunks[n].offset = (n - 1) * ChunkSize

\* the platform's limit on one message, the size handle_document cuts its own to
MessageLimit == ChunkSize

\* C11: an update whose document is not a PDF is answered with exactly the
\* "Por favor, envie um arquivo no formato PDF." reply once the dispatcher is
\* through with it (and nothing is downloaded, no AI call is made).
C11_NonPdfReply ==
    (/\ w_pc = "returning"
     /\ w_exc = "none"
     /\ w_update.kind = "document"
     /\ w_update.mime_type # "application/pdf")
    => d_reply = <<Message("not_pdf")>>

\* C12: the step that ends a /clear leaves the chat without a fallback entry,
\* whatever the remote delete reported, and sends exactly one message: the plain
\* confirmation if the remote delete reported success, the caveat if it did not.
C12_ClearOutcome ==
    [][\A p \in Procs :
          (pc[p] = "clear_local" /\ pc'[p] = "done")
          => /\ temporary_chat_contexts'[chat_id[p]] = None
             /\ reply'[p] = <<IF flag[p] THEN "cleared" ELSE "cleared_caveat">>]_vars

\* a /clear whose remote delete failed has removed the fallback entry that a text
\* exchange with a failed remote write had left for the chat
C12_Witness ==
    \E p \in Procs, q \in Procs :
        /\ p # q
        /\ handler[p] = "clear" /\ pc[p] = "done" /\ ~flag[p]
        /\ reply[p] = <<"cleared_caveat">>
        /\ handler[q] = "text" /\ pc[q] = "done" /\ ~flag[q]
        /\ reply[q] = <<"model_text">>
        /\ chat_id[q] = chat_id[p]
        /\ temporary_chat_contexts[chat_id[p]] = None

\* C13, as stated: after a clear of a chat both stores are without its history,
\* and a get_chat_context for the chat made right after returns the empty one.
C13_ClearThenGetEmpty ==
    /\ (Len(calls) >= 1 /\ calls[Len(calls)].op = "clear")
       => /\ edge_contexts[calls[Len(calls)].chat] = None
          /\ temporary_chat_contexts[calls[Len(calls)].chat] = None
    /\ (/\ Len(calls) = 2
        /\ calls[1].op = "clear"
        /\ calls[2].op = "get"
        /\ calls[2].chat = calls[1].chat)
       => calls[2].result = <<>>

\* C13, amended: after a clear of a chat the fallback dict is without its
\* history, and so is the remote store when the remote delete succeeded; a
\* get_chat_context for the chat made right after such a clear returns the empty
\* history.
C13_ClearThenGetEmptyWhenDeleted ==
    /\ (Len(calls) >= 1 /\ calls[Len(calls)].op = "clear")
       => /\ temporary_chat_contexts[calls[Len(calls)].chat] = None
          /\ calls[Len(calls)].ok => edge_contexts[calls[Len(calls)].chat] = None
    /\ (/\ Len(calls) = 2
        /\ calls[1].op = "clear" /\ calls[1].ok
        /\ calls[2].op = "get"
        /\ calls[2].chat = calls[1].chat)
       => calls[2].result = <<>>

C13_Witness ==
    /\ Len(calls) = 2
    /\ calls[1].op = "clear" /\ calls[1].ok
    /\ calls[2].op = "get" /\ calls[2].ok
    /\ calls[2].chat = calls[1].chat
    /\ calls[2].result = <<>>
    /\ edge_contexts[calls[1].chat] = None
    /\ \E c \in Chats : edge_contexts[c] # None

\* C14, as stated: a /clear of a chat that had no history in either store reports
\* success and sends the plain confirmation.
C14_ClearNothingSucceeds ==
    \A p \in Procs :
        (handler[p] = "clear" /\ pc[p] = "done" /\ ~had_history[p])
        => (flag[p] /\ reply[p] = <<"cleared">>)

\* C14, amended: a /clear of a chat that had no history in either store raises
\* nothing and sends one message: the plain confirmation when the remote delete
\* request succeeded, the caveat when it failed.
C14_ClearNothingReports ==
    \A p \in Procs :
        /\ handler[p] = "clear" => pc[p] \in {"delete_remote", "clear_local", "done"}
        /\ (handler[p] = "clear" /\ pc[p] = "done" /\ ~had_history[p])
           => reply[p] = <<IF flag[p] THEN "cleared" ELSE "cleared_caveat">>

C14_Witness ==
    \E p \in Procs :
        /\ handler[p] = "clear" /\ pc[p] = "done" /\ ~had_history[p]
        /\ flag[p]
        /\ reply[p] = <<"cleared">>
        /\ updates = 1

\* C15: the history handle_text hands to start_chat never ends with a user turn.
C15_PriorHistoryNotUserEnded ==
    \A p \in Procs :
        pc[p] = "ai"
        => \/ initial_history[p] = <<>>
           \/ initial_history[p][Len(initial_history[p])].role # "user"

\* C16: get_all_configs raises nothing; without the credentials, on a transport
\* error, an error status or a malformed response it returns the defaults; on a
\* successful read it returns the stored value of each key that exists and the
\* default of each key that does not.
C16_GetAllConfigsTotal ==
    cfg_call # None
    => LET call == cfg_call[1]
           failed == \/ ~credentials.url \/ ~credentials.token
                     \/ call.outcome # "ok"
       IN  /\ call.raised = None
           /\ configs # None
           /\ failed => configs = Some(Defaults)
           /\ ~failed =>
                 \A key \in {"system_instruction", "safety_settings"} :
                     configs[1][key] = IF call.items[key] = None THEN Defaults[key]
                                       ELSE call.items[key]

\* a successful read of a store that holds an instruction and no safety settings
C16_Witness ==
    /\ cfg_call # None
    /\ cfg_call[1].outcome = "ok"
    /\ credentials.url /\ credentials.token
    /\ cfg_call[1].items.system_instruction # None
    /\ cfg_call[1].items.safety_settings = None
    /\ configs # None
    /\ configs[1].system_instruction = cfg_call[1].items.system_instruction
    /\ configs[1].safety_settings = Some(DEFAULT_SAFETY_SETTINGS)

\* C17: whatever the request, the webhook answers 'ok': no answer but 'ok' is
\* ever given, and every request that is over has been given it.
C17_WebhookAlwaysOk ==
    /\ w_response \in {None, Some("ok")}
    /\ (w_pc = "idle" /\ w_requests > 0) => w_response = Some("ok")

\* a request whose body is not JSON has been answered
C17_Witness ==
    /\ w_pc = "idle"
    /\ w_requests > 0
    /\ w_exc = "BadRequest"
    /\ w_response = Some("ok")

\* C18: no handler lets an exception out to the dispatcher: error_handler is
\* never called.
C18_NoHandlerEscape ==
    /\ ~w_hook
    /\ ~(w_pc = "media" /\ m_pc[WebProc] = "raised")

C21_NoMessageOverLimit ==
    w_pc = "returning"
    => /\ "model_text" \in Range(reply[WebProc])
             => message_length("text", w_ai) <= MessageLimit
       /\ "analysis" \in Range(m_reply[WebProc])
             => message_length(check_update(w_update), w_ai) <= MessageLimit
       /\ (\E i \in 1..Len(w_sent) : w_sent[i].kind = "analysis")
             => message_length("photo", w_ai) <= MessageLimit
       /\ \A n \in 1..Len(Chunks) : Len(Chunks[n].text) <= MessageLimit
       /\ (w_update.kind = "document" /\ Chunks # <<>>) => Concat(Chunks) = response_text

\* the handlers that have run for the request being served: the text and /clear
\* handlers, handle_media, handle_document, and start or handle_photo
HandlersRun ==
    {h \in {"text", "media", "document", "direct"} :
        CASE h = "text" -> handler[WebProc] # "none"
          [] h = "media" -> m_pc[WebProc] # "idle"
          [] h = "document" -> d_pc # "idle"
          [] OTHER -> \E i \in 1..Len(w_sent) : w_sent[i].kind # "report"}

\* C22: for every update at most one handler runs; for an unknown command, a
\* sticker and an update without a message no handler runs, no message is sent
\* and error_handler is not called.
C22_ExclusiveClassification ==
    /\ Cardinality(HandlersRun) <= 1
    /\ (w_pc = "returning" /\ w_update.kind \in {"command_other", "sticker", "no_message"})
       => /\ HandlersRun = {}
          /\ w_sent = <<>>
          /\ reply[WebProc] = <<>> /\ m_reply[WebProc] = <<>> /\ d_reply = <<>>
          /\ ~w_hook

\* an unknown command has been through the dispatcher
C22_Witness ==
    /\ w_pc = "returning"
    /\ w_exc = "none"
    /\ w_update.kind = "command_other"
    /\ HandlersRun = {}
    /\ w_sent = <<>>

\* C23: a step of a text or /clear invocation changes the remote entry and the
\* fallback entry of no chat but the invocation's own.
C23_OtherChatsUntouched ==
    [][\A c \in Chats :
          (\/ edge_contexts'[c] # edge_contexts[c]
           \/ temporary_chat_contexts'[c] # temporary_chat_contexts[c])
          => \E p \in Procs : pc'[p] # pc[p] /\ chat_id[p] = c /\ chat_id'[p] = c]_vars

\* a text exchange of one chat and a /clear of the other are both over: each chat
\* holds what its own invocation left
C23_Witness ==
    \E p \in Procs, q \in Procs :
        /\ handler[p] = "text" /\ pc[p] = "done" /\ ~flag[p]
        /\ handler[q] = "clear" /\ pc[q] = "done" /\ flag[q]
        /\ chat_id[p] # chat_id[q]
        /\ temporary_chat_contexts[chat_id[p]] = Some(serializable_history[p])
        /\ edge_contexts[chat_id[p]] = Some(seed_history(MaxSeedExchanges))
        /\ edge_contexts[chat_id[q]] = None
        /\ temporary_chat_contexts[chat_id[q]] = None

\* the text handler has run for the request being served and its AI call succeeded
\* (send_message returned, so the session's history was taken)
TextAnswered ==
    /\ w_pc = "returning"
    /\ handler[WebProc] = "text"
    /\ serializable_history[WebProc] # <<>>

\* its remote read failed: a history was stored for the chat when it began, and
\* get_chat_context returned the empty one (a stored history is never empty, and
\* a fallback entry would have been returned)
ReadFailed == had_history[WebProc] /\ prior[WebProc] = <<>>

StatelessKinds == {"command_start", "photo", "voice", "audio", "audio_noname", "video", "document"}

\* C25: no step taken for a /start, a photo, a voice note, an audio file, a video
\* or a document changes the remote store or the fallback dict, from the arrival
\* of the update to the return of the webhook, whichever way the handler ends.
C25_OnlyTextAndClearWrite ==
    [][(w_update.kind \in StatelessKinds \/ w_update'.kind \in StatelessKinds)
          => UNCHANGED storeVars]_vars

\* handle_media ended with an exception out of its cleanup and error_handler has
\* run: the stores are as they were when the process started
C25_Witness ==
    /\ w_pc = "returning"
    /\ w_update.kind = "video"
    /\ w_hook
    /\ "apology" \in Range(m_reply[WebProc])
    /\ edge_contexts = [c \in Chats |-> Some(seed_history(MaxSeedExchanges))]
    /\ temporary_chat_contexts = [c \in Chats |-> None]

\* C26: the steps of handle_text come in the order context read, AI call, context
\* save, reply: the AI call begins after the read; the save begins only after an
\* AI call that succeeded, with the session's history ending in the model's turn;
\* the model's text is sent only by the step that ends the save, whose outcome is
\* then on record; after an AI call that failed the handler only apologizes, and
\* neither of its steps changes the remote store or the fallback dict.
C26_TextStepOrder ==
    [][\A p \in Procs :
          (handler[p] = "text" /\ pc'[p] # pc[p]) =>
             /\ pc'[p] = "get_local" => pc[p] = "get_remote"
             /\ pc'[p] = "config" => pc[p] = "get_local"
             /\ pc'[p] = "ai" => pc[p] = "config"
             /\ pc'[p] = "save_remote"
                   => /\ pc[p] = "ai"
                      /\ serializable_history'[p] # <<>>
                      /\ serializable_history'[p][Len(serializable_history'[p])] = ModelTurn(ReplyText)
             /\ pc'[p] = "save_local" => pc[p] = "save_remote"
             /\ (reply'[p] # reply[p] /\ "model_text" \in Range(reply'[p]))
                   => /\ pc[p] = "save_local"
                      /\ last_store_op'[chat_id[p]] = IF flag[p] THEN "saved" ELSE "save_failed"
             /\ (pc[p] = "ai" /\ pc'[p] # "save_remote")
                   => pc'[p] = "apologize" /\ UNCHANGED storeVars
             /\ (pc[p] = "apologize" /\ serializable_history[p] = <<>>)
                   => /\ pc'[p] = "done"
                      /\ reply'[p] = <<"apology">>
                      /\ UNCHANGED <<storeVars, last_store_op, write_order>>]_vars

\* two text exchanges are over: one whose AI call failed, with the apology sent
\* and its chat's remote entry as it was, and one that saved and then replied
C26_Witness ==
    \E p \in Procs, q \in Procs :
        /\ handler[p] = "text" /\ pc[p] = "done"
        /\ serializable_history[p] = <<>> /\ prior[p] # <<>>
        /\ reply[p] = <<"apology">>
        /\ edge_contexts[chat_id[p]] = Some(seed_history(MaxSeedExchanges))
        /\ handler[q] = "text" /\ pc[q] = "done" /\ flag[q]
        /\ chat_id[q] # chat_id[p]
        /\ reply[q] = <<"model_text">>
        /\ edge_contexts[chat_id[q]] = Some(serializable_history[q])

\* C27: once handle_document has found no text but whitespace in the PDF, it is
\* over, and what it has sent is the processing notice and the one message "O PDF
\* parece nao conter texto extraivel.": no AI call was made (there is no summary
\* text), no apology and no summary segment was sent.
C27_BlankPdf ==
    (\E i \in 1..Len(d_reply) : d_reply[i].kind = "no_text")
    => /\ d_pc = "done"
       /\ d_reply = <<Message("processing"), Message("no_text")>>
       /\ response_text = <<>>
       /\ Chunks = <<>>

C27_Witness ==
    /\ d_pc = "done"
    /\ document = [mime_type |-> "application/pdf", file_name |-> <<6, 7, 8>>]
    /\ d_reply = <<Message("processing"), Message("no_text")>>
    /\ response_text = <<>>

\* C28: in the chunk loop of handle_document a segment whose send failed is not
\* sent again and the segments after it are still attempted: the segments
\* attempted are at strictly increasing offsets, one per turn of the loop whether
\* delivered or not, and once the handler is over there is one for every offset
\* 0, 4096, 8192, ... below the length of the text and no apology was sent.
C28_FailedChunkSkipped ==
    /\ \A i, j \in 1..Len(Chunks) : i < j => Chunks[i].offset < Chunks[j].offset
    /\ (d_pc = "chunks") => chunk_i = Len(Chunks) * ChunkSize
    /\ (d_pc = "done" /\ Chunks # <<>>)
       => /\ {Chunks[n].offset : n \in 1..Len(Chunks)}
                = {off \in {k * ChunkSize : k \in 0..Len(Chunks)} : off < Len(response_text)}
          /\ \A n \in 1..Len(d_reply) : d_reply[n].kind # "apology"

\* the first and the last of three segments were not delivered, the second was
C28_Witness ==
    /\ d_pc = "done"
    /\ Len(Chunks) = 3
    /\ ~Chunks[1].delivered /\ Chunks[2].delivered /\ ~Chunks[3].delivered
    /\ \A n \in 1..3 : Chunks[n].offset = (n - 1) * ChunkSize
    /\ d_reply = <<Message("processing")>> \o Chunks

\* C29: handle_photo, handle_media and handle_document send the processing notice
\* first: whenever one of them is at, or past, its file lookup, its download, its
\* upload or its AI call, the first message it sent is the notice.
C29_NoticeFirst ==
    /\ (\/ m_pc[WebProc] \in {"get_file", "download", "upload", "generate", "send_result"}
        \/ file_path[WebProc] # None
        \/ gemini_file[WebProc] # None)
       => (m_reply[WebProc] # <<>> /\ m_reply[WebProc][1] = "processing")
    /\ (d_pc \in {"download", "extract", "generate", "chunks", "except"} \/ response_text # <<>>)
       => (d_reply # <<>> /\ d_reply[1] = Message("processing"))
    /\ w_pc = "photo" => w_sent = <<[to |-> w_update.chat, kind |-> "processing"]>>
    /\ (w_update.kind = "photo" /\ w_sent # <<>>)
       => w_sent[1] = [to |-> w_update.chat, kind |-> "processing"]

\* a voice note has been looked up and downloaded and is about to be uploaded:
\* the notice is all that was sent
C29_Witness ==
    /\ w_update.kind = "voice"
    /\ m_pc[WebProc] = "upload"
    /\ file_path[WebProc] # None
    /\ tmp_files[file_path[WebProc][1]] = Some(WebProc)
    /\ m_reply[WebProc] = <<"processing">>

\* the value of each key the store holds, and the default of each key it does not
Effective(items) ==
    [key \in {"system_instruction", "safety_settings"} |->
        IF items[key] = None THEN Defaults[key] ELSE items[key]]

\* C30, as stated: the model of every invocation is built from what the Config
\* Store holds at the invocation's read, whatever an earlier invocation read.
C30_StoredConfigAlwaysUsed ==
    cfg_call # None
    => cfg_call[1].model = Some(Effective(cfg_call[1].items))

\* C30, amended: the model of every invocation is built from what get_all_configs
\* returned in that invocation: what the store holds at that moment when the
\* read succeeds, the defaults when it fails or the credentials are missing;
\* what an earlier invocation read has no part in it.
C30_FreshConfigUsed ==
    cfg_call # None
    => LET call == cfg_call[1]
           failed == \/ ~credentials.url \/ ~credentials.token
                     \/ call.outcome # "ok"
       IN  /\ call.model = Some(IF failed THEN Defaults ELSE Effective(call.items))
           /\ call.model = model_settings(configs)

\* the invocation before read the defaults; the operator then saved an instruction
\* and safety settings, and this invocation's model has them
C30_Witness ==
    /\ cfg_call # None
    /\ cfg_call[1].outcome = "ok"
    /\ cfg_call[1].before = Some(Defaults)
    /\ cfg_call[1].items.system_instruction = Some("Seja breve.")
    /\ cfg_call[1].items.safety_settings # None
    /\ cfg_call[1].model = Some([system_instruction |-> Some("Seja breve."),
                                 safety_settings |-> cfg_call[1].items.safety_settings])

\* C31: a text exchange that ended with the apology left the stored history of
\* its chat as it was. For the first invocation of a process whose remote store
\* is empty, that is: no remote entry, and the fallback entry the invocation read
\* (none if it read the empty history).
C31_ApologyLeavesHistory ==
    \A p \in Procs :
        (/\ updates = 1
         /\ handler[p] = "text" /\ pc[p] = "done"
         /\ reply[p] = <<"apology">>)
        => /\ edge_contexts[chat_id[p]] = None
           /\ temporary_chat_contexts[chat_id[p]] =
                 IF prior[p] = <<>> THEN None ELSE Some(prior[p])

\* C32: a get_chat_context(chat) made right after a save_chat_context(chat, H)
\* whose remote write failed returns H, whether the remote read succeeds or not.
C32_FailedSaveThenGet ==
    (/\ Len(calls) = 2
     /\ calls[1].op = "save" /\ ~calls[1].ok
     /\ calls[2].op = "get"
     /\ calls[2].chat = calls[1].chat)
    => calls[2].result = calls[1].hist

\* the turns of a history are a user turn, a model turn, a user turn, ...
Alternates(hist) ==
    \A i \in 1..Len(hist) : hist[i].role = IF i % 2 = 1 THEN "user" ELSE "model"

\* C33: the history handle_text hands to start_chat strictly alternates roles and
\* begins with a user turn, also when chat_history was cut to its last 20 turns.
C33_PriorHistoryAlternates ==
    \A p \in Procs : pc[p] = "ai" => Alternates(initial_history[p])

\* C34: from the end of its download to the end of its upload, the temp file of a
\* handle_media invocation exists and is the one that invocation wrote: no other
\* invocation has removed it or written over it.
C34_TempFileOwned ==
    \A p \in Procs :
        m_pc[p] = "upload"
        => /\ file_path[p] # None
           /\ tmp_files[file_path[p][1]] = Some(p)

====
